---- MODULE Spec2Model ----
(***************************************************************************)
(* The #[security_test] attribute macro of security-scanner (src/lib.rs).  *)
(*                                                                         *)
(* Text is modelled as a sequence of one-character strings, so that        *)
(* str::contains, str::len and to_uppercase are computed on the characters *)
(* and not assumed.  Two specifications:                                   *)
(*   Spec      one macro invocation: the attribute token stream and the    *)
(*             annotated function are the inputs, Expand applies the macro *)
(*   SpecUnit  one compilation unit: annotated functions are expanded one  *)
(*             after the other, their statics land in the two sections     *)
(***************************************************************************)
EXTENDS Integers, Sequences, FiniteSets

VARIABLES
    attr,            \* the attribute token stream: a sequence of tokens
    sep,             \* the text that attr.to_string() puts between tokens
    attr_str,        \* attr.to_string()
    input_fn,        \* the annotated item, <<>> before the macro ran
    expanded,        \* the token stream the macro returned, as items
    fns,             \* unit: names of the functions expanded so far
    security_tests,  \* unit: bytes of the records section, emission order
    security_names,  \* unit: entries of the names section, emission order
    idents,          \* unit: identifiers of the statics defined so far
    collision        \* unit: a static identifier was defined twice

vars == <<attr, sep, attr_str, input_fn, expanded,
          fns, security_tests, security_names, idents, collision>>

----------------------------------------------------------------------------
(* Bounds *)

\* longest attribute token stream, in tokens
MaxTokens == 4
\* longest function name, in bytes
MaxNameLen == 256
\* most annotated functions in one compilation unit
MaxFns == 2

----------------------------------------------------------------------------
(* Text *)

Range(s) == {s[i] : i \in 1..Len(s)}

\* str::contains(pat)
Contains(s, pat) ==
    \E i \in 0..(Len(s) - Len(pat)) : \A j \in 1..Len(pat) : s[i + j] = pat[j]

Lower == <<"a","b","c","d","e","f","g","h","i","j","k","l","m",
           "n","o","p","q","r","s","t","u","v","w","x","y","z">>
Upper == <<"A","B","C","D","E","F","G","H","I","J","K","L","M",
           "N","O","P","Q","R","S","T","U","V","W","X","Y","Z">>

\* the characters of an identifier of the model
IdentChars == Range(Lower) \cup Range(Upper) \cup {"_"}

\* char::to_uppercase on the ASCII range
UpperChar ==
    [c \in IdentChars |->
        IF \E i \in 1..26 : Lower[i] = c
        THEN Upper[CHOOSE i \in 1..26 : Lower[i] = c]
        ELSE c]

\* str::to_uppercase
to_uppercase(s) == [i \in 1..Len(s) |-> UpperChar[s[i]]]

\* the keywords the macro looks for
KwSqlInjection == <<"s","q","l","_","i","n","j","e","c","t","i","o","n">>
KwRaceCondition == <<"r","a","c","e","_","c","o","n","d","i","t","i","o","n">>
KwTimingAttack == <<"t","i","m","i","n","g","_","a","t","t","a","c","k">>
KwBufferOverflow == <<"b","u","f","f","e","r","_","o","v","e","r","f","l","o","w">>
KwCritical == <<"c","r","i","t","i","c","a","l">>
KwHigh == <<"h","i","g","h">>
KwMedium == <<"m","e","d","i","u","m">>

\* the threat level the documentation lists and the macro never looks for
KwLow == <<"l","o","w">>

\* identifiers that are no keyword of the macro: a field of
\* SecurityTestConfig without a flag in the record, and an identifier that
\* embeds a keyword
IntegerOverflow == <<"i","n","t","e","g","e","r","_","o","v","e","r","f","l","o","w">>
NosqlInjection == <<"n","o","s","q","l","_","i","n","j","e","c","t","i","o","n">>

FlagKeywords == {KwSqlInjection, KwRaceCondition, KwTimingAttack, KwBufferOverflow}
LevelKeywords == {KwCritical, KwHigh, KwMedium, KwLow}

\* the tokens an attribute is made of
Tokens == FlagKeywords \cup LevelKeywords \cup {IntegerOverflow, NosqlInjection}

\* what to_string() writes between two tokens
Separators == {<<",", " ">>, <<" ">>}

\* TokenStream::to_string: the tokens, separated
RECURSIVE to_string(_, _)
to_string(ts, sp) ==
    IF Len(ts) = 0 THEN <<>>
    ELSE IF Len(ts) = 1 THEN ts[1]
    ELSE ts[1] \o sp \o to_string(Tail(ts), sp)

\* token streams of at most n tokens, no token twice
RECURSIVE TokenStreams(_)
TokenStreams(n) ==
    IF n = 0 THEN {<<>>}
    ELSE LET S == TokenStreams(n - 1)
         IN  S \cup UNION {{Append(s, t) : t \in Tokens \ Range(s)} : s \in S}

----------------------------------------------------------------------------
(* The annotated functions *)

NameLogin == <<"l","o","g","i","n">>
NameLoginCapital == <<"L","o","g","i","n">>
NameF == <<"f">>

\* an identifier of n bytes
LongName(n) == [i \in 1..n |-> "a"]

\* the function names of the model: short ones, two that differ in case
\* only, and the names around the capacity of the one-byte length field
ShortNames == {NameLogin, NameLoginCapital, NameF}
FnNames == ShortNames \cup {LongName(n) : n \in 255..MaxNameLen}

\* syn::ItemFn: visibility, signature identifier and body
ItemFn(v, n, b) == [vis |-> v, ident |-> n, block |-> b]

\* the annotated functions one invocation is checked on
ItemFns == {ItemFn("", NameLogin, "{ true }"), ItemFn("pub", NameF, "{ vec![] }")}

\* the annotated functions a compilation unit is made of
UnitItemFns == {ItemFn("", n, "{ true }") : n \in FnNames}

----------------------------------------------------------------------------
(* The macro security_test(attr, item) *)

\* let sql_injection = if attr_str.contains("sql_injection") { 1u8 } else { 0u8 };
sql_injection(s) == IF Contains(s, KwSqlInjection) THEN 1 ELSE 0

\* let race_condition = ...
race_condition(s) == IF Contains(s, KwRaceCondition) THEN 1 ELSE 0

\* let timing_attack = ...
timing_attack(s) == IF Contains(s, KwTimingAttack) THEN 1 ELSE 0

\* a buffer_overflow test that matches every kind of overflow
buffer_overflow_any_overflow(s) ==
    IF Contains(s, <<"o","v","e","r","f","l","o","w">>) THEN 1 ELSE 0

\* let buffer_overflow = ...
buffer_overflow(s) == IF Contains(s, KwBufferOverflow) THEN 1 ELSE 0

\* a threat level whose default is medium
threat_level_default_medium(s) ==
    IF Contains(s, KwCritical) THEN 3
    ELSE IF Contains(s, KwHigh) THEN 2
    ELSE IF Contains(s, KwLow) THEN 0
    ELSE 1

\* a threat level that looks for high before critical
threat_level_high_first(s) ==
    IF Contains(s, KwHigh) THEN 2
    ELSE IF Contains(s, KwCritical) THEN 3
    ELSE IF Contains(s, KwMedium) THEN 1
    ELSE 0

\* let threat_level = if .. "critical" { 3 } else if .. "high" { 2 }
\*                    else if .. "medium" { 1 } else { 0 /* low (default) */ }
threat_level(s) ==
    IF Contains(s, KwCritical) THEN 3
    ELSE IF Contains(s, KwHigh) THEN 2
    ELSE IF Contains(s, KwMedium) THEN 1
    ELSE 0

SecTestPrefix == <<"_","_","S","E","C","_","T","E","S","T","_">>
SecNamePrefix == <<"_","_","S","E","C","_","N","A","M","E","_">>

\* format_ident!("__SEC_TEST_{}", fn_name.to_string().to_uppercase())
metadata_var_name(fn_name) == SecTestPrefix \o to_uppercase(fn_name)

\* format_ident!("__SEC_NAME_{}", fn_name.to_string().to_uppercase())
name_var_name(fn_name) == SecNamePrefix \o to_uppercase(fn_name)

\* fn_name_str.len()
fn_name_len(fn_name_str) == Len(fn_name_str)

\* a length that saturates at the capacity of the byte
as_u8_saturating(n) == IF n > 255 THEN 255 ELSE n

\* `#fn_name_len as u8`: a usize narrowed to one byte
as_u8(n) == n % 256

\* the declared length of the record: [u8; 64]
RecordSize == 64

\* 0xBE, 0xBA, 0xFE, 0xCA, 0xEF, 0xBE, 0xAD, 0xDE
Magic == <<190, 186, 254, 202, 239, 190, 173, 222>>

\* the zeros written after the threat level: 32 on the first line of the
\* initializer's padding, 19 on the second
PaddingLen == 51
Padding == [i \in 1..PaddingLen |-> 0]

\* an initializer with the race_condition and timing_attack flags exchanged
metadata_initializer_swapped(len, sql, race, timing, buffer, level) ==
    Magic \o <<len % 256>> \o <<sql, timing, race, buffer>> \o <<level>> \o Padding

\* the array expression of the record static, as written in quote!
metadata_initializer(len, sql, race, timing, buffer, level) ==
    Magic \o <<as_u8(len)>> \o <<sql, race, timing, buffer>> \o <<level>> \o Padding

SectionTests == ".security_tests"
SectionNames == ".security_names"

\* an expansion that rewrites the body of the function
security_test_wrapped(s, item) ==
    << [kind |-> "fn", item |-> [item EXCEPT !.block = "{ probe(); true }"]],
       [kind |-> "static", link_section |-> SectionTests, used |-> TRUE,
        ident |-> SecTestPrefix \o to_uppercase(item.ident),
        size |-> RecordSize,
        init |-> metadata_initializer(Len(item.ident),
                    sql_injection(s), race_condition(s),
                    timing_attack(s), buffer_overflow(s), threat_level(s))],
       [kind |-> "static", link_section |-> SectionNames, used |-> TRUE,
        ident |-> SecNamePrefix \o to_uppercase(item.ident),
        value |-> item.ident] >>

\* the expansion: the items of the returned token stream
security_test(s, item) ==
    LET fn_name_str == item.ident
    IN  << [kind |-> "fn", item |-> item],
           [kind |-> "static", link_section |-> SectionTests, used |-> TRUE,
            ident |-> metadata_var_name(item.ident),
            size |-> RecordSize,
            init |-> metadata_initializer(fn_name_len(fn_name_str),
                        sql_injection(s), race_condition(s),
                        timing_attack(s), buffer_overflow(s),
                        threat_level(s))],
           [kind |-> "static", link_section |-> SectionNames, used |-> TRUE,
            ident |-> name_var_name(item.ident),
            value |-> fn_name_str] >>

----------------------------------------------------------------------------
(* Spec: one invocation of the macro *)

\* a configuration: the four test types and the threat level
Configurations ==
    [sql_injection : BOOLEAN, race_condition : BOOLEAN, timing_attack : BOOLEAN,
     buffer_overflow : BOOLEAN, threat_level : {"low", "medium", "high", "critical"}]

LevelKeyword(l) ==
    CASE l = "low" -> KwLow
      [] l = "medium" -> KwMedium
      [] l = "high" -> KwHigh
      [] l = "critical" -> KwCritical

\* the attribute a developer writes for a configuration, as in the examples
\* of the documentation: the test types, then the threat level
AttrOf(c) ==
    (IF c.sql_injection THEN <<KwSqlInjection>> ELSE <<>>)
    \o (IF c.race_condition THEN <<KwRaceCondition>> ELSE <<>>)
    \o (IF c.timing_attack THEN <<KwTimingAttack>> ELSE <<>>)
    \o (IF c.buffer_overflow THEN <<KwBufferOverflow>> ELSE <<>>)
    \o <<LevelKeyword(c.threat_level)>>

\* the attributes of the model: every token stream up to MaxTokens tokens,
\* and the attribute of every configuration
Attrs == TokenStreams(MaxTokens) \cup {AttrOf(c) : c \in Configurations}

Init ==
    /\ attr \in Attrs
    /\ sep \in Separators
    /\ attr_str = <<>>
    /\ input_fn = <<>>
    /\ expanded = <<>>
    /\ fns = <<>>
    /\ security_tests = <<>>
    /\ security_names = <<>>
    /\ idents = {}
    /\ collision = FALSE

\* the compiler calls security_test(attr, item)
Expand ==
    /\ expanded = <<>>
    /\ attr_str' = to_string(attr, sep)
    /\ \E item \in ItemFns :
         /\ input_fn' = item
         /\ expanded' = security_test(attr_str', item)
    /\ UNCHANGED <<attr, sep, fns, security_tests, security_names, idents, collision>>

Next == Expand

Spec == Init /\ [][Next]_vars

----------------------------------------------------------------------------
(* SpecUnit: a compilation unit of annotated functions *)

\* the attributes of the examples in the macro's documentation:
\* #[security_test], #[security_test(sql_injection)],
\* #[security_test(sql_injection, timing_attack, critical)],
\* #[security_test(race_condition, high)]
UnitAttrs == { <<>>,
               <<KwSqlInjection>>,
               <<KwSqlInjection, KwTimingAttack, KwCritical>>,
               <<KwRaceCondition, KwHigh>> }

CommaSpace == <<",", " ">>

InitUnit ==
    /\ attr = <<>>
    /\ sep = CommaSpace
    /\ attr_str = <<>>
    /\ input_fn = <<>>
    /\ expanded = <<>>
    /\ fns = <<>>
    /\ security_tests = <<>>
    /\ security_names = <<>>
    /\ idents = {}
    /\ collision = FALSE

\* The compiler expands the attribute of one more function of the unit.  The
\* two statics are defined beside the function: an identifier defined twice
\* in one scope aborts the compilation, otherwise the record's initializer
\* goes to the records section and the name to the names section.
Compile ==
    /\ ~collision
    /\ Len(fns) < MaxFns
    /\ \E a \in UnitAttrs, item \in UnitItemFns :
         LET out == security_test(to_string(a, sep), item)
             defined == {out[2].ident, out[3].ident}
         IN  /\ attr' = a
             /\ attr_str' = to_string(a, sep)
             /\ input_fn' = item
             /\ expanded' = out
             /\ fns' = Append(fns, item.ident)
             /\ idents' = idents \cup defined
             /\ IF defined \cap idents # {}
                THEN /\ collision' = TRUE
                     /\ UNCHANGED <<security_tests, security_names>>
                ELSE /\ collision' = FALSE
                     /\ security_tests' = security_tests \o out[2].init
                     /\ security_names' = Append(security_names, out[3].value)
    /\ UNCHANGED sep

NextUnit == Compile

SpecUnit == InitUnit /\ [][NextUnit]_vars

----------------------------------------------------------------------------
(* Properties *)

\* the macro has run
Ran == expanded # <<>>

\* the array expression of the record static, and the bytes of the layout
Record == expanded[2].init
NameLengthByte == Record[9]
FlagBytes == SubSeq(Record, 10, 13)
ThreatLevelByte == Record[14]

\* the keyword occurs in the attribute: in a token of the stream
Present(kw) == \E i \in 1..Len(attr) : Contains(attr[i], kw)

Bit(b) == IF b THEN 1 ELSE 0

Zeros(n) == [i \in 1..n |-> 0]

\* C1: the record emitted by security_test is exactly 64 bytes long: the
\* initializer has as many elements as the declared size 64, the 14 header
\* bytes followed by exactly 50 zero bytes at offsets 14-63.
C1_RecordIs64Bytes ==
    Ran => /\ expanded[2].size = 64
           /\ Len(Record) = expanded[2].size
           /\ SubSeq(Record, 15, Len(Record)) = Zeros(50)

\* C2: magic at offsets 0-7, the name length at offset 8, the sql_injection,
\* race_condition, timing_attack and buffer_overflow flags at offsets 9-12,
\* the threat-level ordinal at offset 13; "sql_injection, timing_attack,
\* critical" on login gives BE BA FE CA EF BE AD DE 05 01 00 01 00 03
\* followed by 50 zero bytes, and the name record "login".
C2_Layout ==
    Ran => /\ SubSeq(Record, 1, 8) = <<190, 186, 254, 202, 239, 190, 173, 222>>
           /\ NameLengthByte = Len(input_fn.ident)
           /\ FlagBytes = <<Bit(Present(KwSqlInjection)), Bit(Present(KwRaceCondition)),
                            Bit(Present(KwTimingAttack)), Bit(Present(KwBufferOverflow))>>
           /\ ThreatLevelByte \in 0..3
           /\ (/\ attr = <<KwSqlInjection, KwTimingAttack, KwCritical>>
               /\ sep = <<",", " ">>
               /\ input_fn.ident = NameLogin)
              => /\ Record = <<190, 186, 254, 202, 239, 190, 173, 222,
                               5, 1, 0, 1, 0, 3>> \o Zeros(50)
                 /\ expanded[3].value = <<"l","o","g","i","n">>

\* C3 as claimed: an empty attribute gives four flag bytes 0 and the
\* threat_level byte 1 (medium).
C3_EmptyIsMedium ==
    (Ran /\ attr_str = <<>>) => /\ FlagBytes = <<0, 0, 0, 0>>
                                /\ ThreatLevelByte = 1

\* C3 as amended: an empty attribute gives four flag bytes 0 and the
\* threat_level byte 0 (low, the default of the macro).
C3_EmptyIsLow ==
    (Ran /\ attr_str = <<>>) => /\ FlagBytes = <<0, 0, 0, 0>>
                                /\ ThreatLevelByte = 0

C3_Witness == Ran /\ attr = <<>> /\ attr_str = <<>>

\* C4: for every set K of test-type keywords, an attribute that contains
\* exactly the keywords of K, in any order, with either separator and with
\* other tokens between them, has the flags of K at 1 and every other flag at
\* 0, whatever the order and whatever threat-level keyword is present.
C4_FlagsAreTheKeywords ==
    Ran => /\ Record[10] = Bit(Present(KwSqlInjection))
           /\ Record[11] = Bit(Present(KwRaceCondition))
           /\ Record[12] = Bit(Present(KwTimingAttack))
           /\ Record[13] = Bit(Present(KwBufferOverflow))

C4_Witness ==
    /\ Ran
    /\ Range(attr) = {KwCritical, IntegerOverflow, KwBufferOverflow, KwSqlInjection}
    /\ attr[1] = KwCritical
    /\ attr[4] = KwSqlInjection
    /\ FlagBytes = <<1, 0, 0, 1>>

\* C5: with one or more threat-level keywords in the attribute, in any order,
\* the threat_level byte is 3 whenever critical is present, 2 whenever high is
\* present without critical, and otherwise the ordinal of the low (0) or
\* medium (1) keyword that is present.
C5_HighestLevelWins ==
    (Ran /\ \E kw \in LevelKeywords : Present(kw)) =>
        IF Present(KwCritical) THEN ThreatLevelByte = 3
        ELSE IF Present(KwHigh) THEN ThreatLevelByte = 2
        ELSE ThreatLevelByte \in
                 {l \in {0, 1} : Present(IF l = 0 THEN KwLow ELSE KwMedium)}

C5_Witness ==
    /\ Ran
    /\ \E i, j, k \in 1..Len(attr) :
         /\ i < j /\ j < k
         /\ attr[i] = KwLow /\ attr[j] = KwHigh /\ attr[k] = KwCritical
    /\ ThreatLevelByte = 3

\* bytes 9-13 read back per the layout table
LevelNames == <<"low", "medium", "high", "critical">>
Decode(rec) ==
    [sql_injection |-> rec[10] = 1, race_condition |-> rec[11] = 1,
     timing_attack |-> rec[12] = 1, buffer_overflow |-> rec[13] = 1,
     threat_level |-> LevelNames[rec[14] + 1]]

\* C6: round trip: for every configuration, the record emitted for its
\* attribute decodes, at bytes 9-13, to the same flags and threat level.
C6_RoundTrip ==
    Ran => \A c \in Configurations : attr = AttrOf(c) => Decode(Record) = c

C6_Witness ==
    /\ Ran
    /\ attr = AttrOf([sql_injection |-> TRUE, race_condition |-> TRUE,
                      timing_attack |-> TRUE, buffer_overflow |-> TRUE,
                      threat_level |-> "high"])
    /\ SubSeq(Record, 10, 14) = <<1, 1, 1, 1, 2>>

\* C7: the name_length byte is the byte length of the name up to 255 bytes
\* (255 encodes 255) and the length mod 256 beyond (256 encodes 0); the name
\* record holds the full name.
C7_NameLength ==
    Ran => /\ Len(input_fn.ident) <= 255 => NameLengthByte = Len(input_fn.ident)
           /\ Len(input_fn.ident) > 255 => NameLengthByte = Len(input_fn.ident) % 256
           /\ Len(input_fn.ident) = 256 => NameLengthByte = 0
           /\ expanded[3].value = input_fn.ident

C7_Witness ==
    /\ Ran
    /\ Len(input_fn.ident) = 256
    /\ NameLengthByte = 0
    /\ Len(expanded[3].value) = 256
    /\ ~collision /\ Len(security_names) = Len(fns)

\* C8: the output is the original function, unmodified, followed by exactly
\* two generated statics.
C8_FunctionKept ==
    Ran => /\ Len(expanded) = 3
           /\ expanded[1].kind = "fn"
           /\ expanded[1].item = input_fn
           /\ expanded[2].kind = "static"
           /\ expanded[3].kind = "static"

C8_Witness ==
    /\ Ran
    /\ input_fn = ItemFn("pub", NameF, "{ vec![] }")
    /\ Len(attr) = 3

\* C9: two annotated functions of a unit get the same derived identifiers,
\* and the compilation aborts with a collision, only when they have the same
\* name: functions with pairwise different names compile without a collision.
C9_DifferentNamesNoCollision ==
    (\A i, j \in 1..Len(fns) : i < j => fns[i] # fns[j]) => ~collision

\* C10: after n functions compiled without a collision the records section
\* holds 64*n bytes and the names section n entries, the 8 bytes at offset 64*i
\* are the magic constant and the byte at 64*i + 8 is the length (mod 256) of
\* the i-th name.
C10_ConstantStride ==
    ~collision =>
        /\ Len(security_tests) = 64 * Len(fns)
        /\ Len(security_names) = Len(fns)
        /\ \A i \in 0..(Len(fns) - 1) :
             /\ SubSeq(security_tests, 64 * i + 1, 64 * i + 8) = Magic
             /\ security_tests[64 * i + 9] = Len(security_names[i + 1]) % 256

====
